---- MODULE Spec2Model ----
(***************************************************************************)
(* Qualytics: static code metrics computed from the syntax tree that       *)
(* @typescript-eslint/typescript-estree returns for one source file.       *)
(*                                                                         *)
(* A source text is modelled by the syntax it denotes: a sequence of       *)
(* parser records, record 1 being the Program, every other record naming   *)
(* its parent (an earlier record) and the field of the parent it hangs     *)
(* from.  The order of the records under one parent is the order in which  *)
(* `for (const key in node)` and Array.forEach deliver them.               *)
(*                                                                         *)
(* Real numbers are fixed-point integers with Scale units per 1.           *)
(***************************************************************************)
EXTENDS Integers, Sequences, FiniteSets, TLC

VARIABLES code, phase, returned, diagnostics, ran, escaped, divByZero, miArgs, miResult,
          calls, run, disk, listed

vars == <<code, phase, returned, diagnostics, ran, escaped, divByZero, miArgs, miResult,
          calls, run, disk, listed>>

\* One file under analysis, and calculateMaintainabilityIndex on its own.
coreVars == <<code, phase, returned, diagnostics, ran, escaped, divByZero, miArgs, miResult>>

\* The calls made of calculateMetrics, the showMetrics command, the file
\* system and what getTypeScriptFiles has listed from it.
hostVars == <<calls, run, disk, listed>>

\* ---------------------------------------------------------------- bounds
MaxConstructs == 2
MaxClasses == 4
MaxCalls == 3
MaxDeclarations == 4
MaxEntries == 3
MaxExtraFiles == 2

\* ------------------------------------------------------- parser records
\* JavaScript's undefined, as the value of a field a record does not have.
Undefined == "<undefined>"

Null == 0

\* A syntax node; rel is the position of the parent inside the construct
\* that introduces the node (0: the place the construct is attached to).
N(type, rel, key, text, vt) ==
  [rec |-> "node", type |-> type, parent |-> rel, key |-> key,
   text |-> text, vt |-> vt, children |-> <<>>]

Id(rel, key, name) == N("Identifier", rel, key, name, "")

Lit(rel, key, raw, vt) == N("Literal", rel, key, raw, vt)

Block(rel, key) == N("BlockStatement", rel, key, "", "")

Empty(rel, key) == N("EmptyStatement", rel, key, "", "")

\* node.name, node.operator: only syntax nodes of the right kind have them;
\* a token record carries its text in `value`.
name(n) == IF n.rec = "node" /\ n.type = "Identifier" THEN n.text ELSE Undefined

operator(n) == IF n.rec = "node" THEN n.text ELSE Undefined

\* String(literalNode.value): the string form forgets the type of the value.
String(n) ==
  IF n.rec # "node" THEN n.text
  ELSE CASE n.vt = "null" -> "null"
         [] n.vt = "number" -> n.text
         [] n.vt = "boolean" -> n.text
         [] n.vt = "string" -> n.text
         [] OTHER -> Undefined

\* ------------------------------------------------------------ constructs
\* What the parser builds for one piece of source text: the node and the
\* children it always comes with.  cls says where the piece may stand.
C(cls, nodes) == [cls |-> cls, nodes |-> nodes]

Stmt(type) == C("stmt", <<N(type, 0, "body", "", "")>>)

\* In the pieces below a node that has children stands right after the
\* position rel of its parent, so that its own position is rel + 1.
ExprStmt(nodes) ==
  C("stmt", <<N("ExpressionStatement", 0, "body", "", "")>> \o nodes)

OpExpr(type, op, rel, key) ==
  <<N(type, rel, key, op, ""), Id(rel + 1, "left", "a"), Lit(rel + 1, "right", "1", "number")>>

UnExpr(type, op, rel, key) ==
  <<N(type, rel, key, op, ""), Id(rel + 1, "argument", "a")>>

CallId(rel, key, f) ==
  <<N("CallExpression", rel, key, "", ""), Id(rel + 1, "callee", f)>>

Member(rel, key, obj, prop) ==
  <<N("MemberExpression", rel, key, "", ""), Id(rel + 1, "object", obj), prop>>

CallMember(rel, key) ==
  <<N("CallExpression", rel, key, "", "")>>
    \o Member(rel + 1, "callee", "a", Id(rel + 2, "property", "b"))

\* class [id] [extends sup] { }   sup: "" none, "()" a call, else a name
ClassDecl(id, sup) ==
  C("stmt",
    <<N("ClassDeclaration", 0, "body", "", "")>>
      \o (IF sup = "()" THEN CallId(1, "superClass", "mixin") ELSE <<>>)
      \o <<N("ClassBody", 1, "body", "", "")>>
      \o (IF id = "" THEN <<>> ELSE <<Id(1, "id", id)>>)
      \o (IF sup \in {"", "()"} THEN <<>> ELSE <<Id(1, "superClass", sup)>>))

Method(m) ==
  C("member",
    <<N("MethodDefinition", 0, "body", "", ""), Id(1, "key", m),
      N("FunctionExpression", 1, "value", "", ""), Block(3, "body")>>)

SwitchCase(hasTest) ==
  C("case",
    <<N("SwitchCase", 0, "cases", "", "")>>
      \o (IF hasTest THEN <<Lit(1, "test", "1", "number")>> ELSE <<>>))

PlainIf ==
  C("stmt", <<N("IfStatement", 0, "body", "", ""), Id(1, "test", "a"), Block(1, "consequent")>>)

ExecutableStatements ==
  { ExprStmt(<<Id(1, "expression", "a")>>),
    ExprStmt(UnExpr("AwaitExpression", "", 1, "expression")),
    ExprStmt(UnExpr("YieldExpression", "", 1, "expression")),
    C("stmt", <<N("VariableDeclaration", 0, "body", "", ""),
                N("VariableDeclarator", 1, "declarations", "", ""),
                Id(2, "id", "a"), N("ArrayExpression", 2, "init", "", "")>>),
    Stmt("ReturnStatement"),
    PlainIf,
    C("stmt", <<N("ForStatement", 0, "body", "", ""), Empty(1, "body")>>),
    C("stmt", <<N("ForInStatement", 0, "body", "", ""), Id(1, "left", "a"),
                Id(1, "right", "b"), Empty(1, "body")>>),
    C("stmt", <<N("ForOfStatement", 0, "body", "", ""), Id(1, "left", "a"),
                Id(1, "right", "b"), Empty(1, "body")>>),
    C("stmt", <<N("WhileStatement", 0, "body", "", ""),
                Lit(1, "test", "true", "boolean"), Block(1, "body")>>),
    C("stmt", <<N("DoWhileStatement", 0, "body", "", ""), Empty(1, "body"),
                Lit(1, "test", "true", "boolean")>>),
    C("stmt", <<N("SwitchStatement", 0, "body", "", ""), Id(1, "discriminant", "a")>>),
    C("stmt", <<N("SwitchStatement", 0, "body", "", ""), Id(1, "discriminant", "a"),
                N("SwitchCase", 1, "cases", "", "")>>),
    C("stmt", <<N("ThrowStatement", 0, "body", "", ""), Id(1, "argument", "a")>>),
    C("stmt", <<N("TryStatement", 0, "body", "", ""), Block(1, "block"),
                N("CatchClause", 1, "handler", "", ""), Block(3, "body")>>),
    C("stmt", <<N("FunctionDeclaration", 0, "body", "", ""), Block(1, "body"),
                Id(1, "id", "f")>>),
    ClassDecl("A", ""),
    Stmt("BreakStatement"),
    Stmt("ContinueStatement") }

OtherStatements ==
  { Stmt("EmptyStatement"),
    C("stmt", <<N("TSInterfaceDeclaration", 0, "body", "", ""),
                N("TSInterfaceBody", 1, "body", "", ""), Id(1, "id", "A")>>) }

Members ==
  { Method("m"),
    C("member", <<N("PropertyDefinition", 0, "body", "", ""), Id(1, "key", "a")>>) }

Cases == { SwitchCase(TRUE), SwitchCase(FALSE) }

\* // ...  and  /* ... */  : records of the Program's comments array.
Comment(type) ==
  C("stmt", <<[rec |-> "comment", type |-> type, parent |-> 0, key |-> "comments",
               text |-> "", vt |-> "", children |-> <<>>]>>)

Comments == { Comment("Line"), Comment("Block") }

\* One expression of every kind the calculators look at.
Expressions ==
  { C("expr", <<Id(0, "arguments", "a")>>),
    C("expr", <<Lit(0, "arguments", "1", "number")>>),
    C("expr", OpExpr("BinaryExpression", "+", 0, "arguments")),
    C("expr", OpExpr("LogicalExpression", "&&", 0, "arguments")),
    C("expr", OpExpr("LogicalExpression", "||", 0, "arguments")),
    C("expr", OpExpr("LogicalExpression", "??", 0, "arguments")),
    C("expr", OpExpr("AssignmentExpression", "=", 0, "arguments")),
    C("expr", UnExpr("UpdateExpression", "++", 0, "arguments")),
    C("expr", UnExpr("UnaryExpression", "!", 0, "arguments")),
    C("expr", CallId(0, "arguments", "f")),
    C("expr", CallMember(0, "arguments")),
    C("expr", Member(0, "arguments", "a", Id(1, "property", "b"))),
    C("expr", Member(0, "arguments", "a", Lit(1, "property", "1", "number"))),
    C("expr", <<N("ConditionalExpression", 0, "arguments", "", ""),
                Id(1, "test", "a"), Id(1, "consequent", "b"),
                Lit(1, "alternate", "1", "number")>>),
    C("expr", <<N("NewExpression", 0, "arguments", "", ""), Id(1, "callee", "A")>>),
    C("expr", <<N("ArrowFunctionExpression", 0, "arguments", "", ""), Block(1, "body")>>),
    C("expr", <<N("FunctionExpression", 0, "arguments", "", ""), Block(1, "body")>>),
    C("expr", <<N("ThisExpression", 0, "arguments", "", "")>>) }

\* Statements that carry an expression list, so that expressions nest.
Calls == { ExprStmt(CallId(1, "expression", "f")), ExprStmt(CallMember(1, "expression")) }

\* The kind of construct a node takes as further children.
Accepts(type) ==
  CASE type \in {"Program", "BlockStatement", "SwitchCase"} -> "stmt"
    [] type = "ClassBody" -> "member"
    [] type = "SwitchStatement" -> "case"
    [] type \in {"CallExpression", "NewExpression", "ArrayExpression"} -> "expr"
    [] OTHER -> "none"

\* The positions base+1 .. base+n that satisfy Test, in order.
Positions(base, n, Test(_)) ==
  SelectSeq([k \in 1..n |-> base + k], Test)

\* The source text with construct c written at place p: the new records
\* follow the old ones, and p gets the construct's top records as last children.
Write(nodes, c, p) ==
  LET base == Len(nodes)
      n == Len(c.nodes)
      new == [k \in 1..n |->
                [c.nodes[k] EXCEPT
                   !.parent = IF @ = 0 THEN p ELSE base + @,
                   !.children = Positions(base, n,
                                  LAMBDA j : c.nodes[j - base].parent = k)]]
      tops == Positions(base, n, LAMBDA j : c.nodes[j - base].parent = 0)
  IN [nodes EXCEPT ![p].children = @ \o tops] \o new

EmptyModule == <<N("Program", 0, "", "", "")>>

\* ------------------------------------------------------------ the parser
\* The token the scanner reports for a syntax node (tokens: true).
TokenType(n) ==
  CASE n.rec # "node" -> "none"
    [] n.type = "Identifier" -> "Identifier"
    [] n.type = "Literal" /\ n.vt = "number" -> "Numeric"
    [] n.type = "Literal" /\ n.vt = "string" -> "String"
    [] n.type = "Literal" /\ n.vt = "boolean" -> "Boolean"
    [] n.type = "Literal" /\ n.vt = "null" -> "Null"
    [] n.type \in {"BinaryExpression", "LogicalExpression", "AssignmentExpression",
                   "UpdateExpression", "ConditionalExpression", "BlockStatement",
                   "ClassBody", "EmptyStatement", "ArrayExpression",
                   "ArrowFunctionExpression"} -> "Punctuator"
    [] n.type \in {"Program", "ExpressionStatement", "VariableDeclarator",
                   "CallExpression", "MemberExpression", "MethodDefinition",
                   "PropertyDefinition", "LabeledStatement", "TSInterfaceBody",
                   "CatchClause"} -> "none"
    [] OTHER -> "Keyword"

Token(type, value) ==
  [rec |-> "token", type |-> type, parent |-> 1, key |-> "tokens",
   text |-> value, vt |-> "", children |-> <<>>]

RECURSIVE Tokens(_, _)
Tokens(nodes, k) ==
  IF k > Len(nodes) THEN <<>>
  ELSE (IF TokenType(nodes[k]) = "none" THEN <<>>
        ELSE <<Token(TokenType(nodes[k]), nodes[k].text)>>) \o Tokens(nodes, k + 1)

\* parse(code, {loc, range, comment: true, tokens: true, ...}): the syntax
\* nodes and, as further fields of the Program after its body, the tokens
\* array and the comments array.
parse(src) ==
  LET nodes == src.nodes
      tokens == Tokens(nodes, 1)
      body == SelectSeq(nodes[1].children, LAMBDA j : nodes[j].rec = "node")
      cmts == SelectSeq(nodes[1].children, LAMBDA j : nodes[j].rec = "comment")
      toks == [k \in 1..Len(tokens) |-> Len(nodes) + k]
  IN [nodes EXCEPT ![1].children = body \o toks \o cmts] \o tokens

\* ------------------------------------------------------------ the walker
\* The values `node[key]` takes besides records and arrays of records: the
\* type string and the loc object (neither has a "type" key).
AString == -1

ALoc == -2

\* node && typeof node === "object" && "type" in node
isASTNode(t, v) == v # Null /\ v # AString /\ v # ALoc /\ t[v].type # Undefined

\* traverseAST(node, {enter, leave}): the events it delivers, in order.  The
\* keys of a record are its type, its loc, and the fields holding its child
\* records (single or in arrays), which `children` lists in key order.
RECURSIVE traverseAST(_, _, _)
RECURSIVE forEach(_, _, _, _)
RECURSIVE visit(_, _, _)
traverseAST(t, i, leave) ==
  <<[ev |-> "enter", node |-> i]>>
    \o visit(t, AString, leave) \o visit(t, ALoc, leave)
    \o forEach(t, t[i].children, leave, 1)
    \o (IF leave THEN <<[ev |-> "leave", node |-> i]>> ELSE <<>>)

\* if (isASTNode(child)) traverseAST(child, visitor)
visit(t, v, leave) == IF isASTNode(t, v) THEN traverseAST(t, v, leave) ELSE <<>>

\* child.forEach taking the items of the array from the last to the first.
forEachBackwards(t, array, leave, k) ==
  IF k > Len(array) THEN <<>>
  ELSE forEach(t, array, leave, k + 1) \o visit(t, array[k], leave)

\* child.forEach((item) => { if (isASTNode(item)) traverseAST(item, ...) })
forEach(t, array, leave, k) ==
  IF k > Len(array) THEN <<>>
  ELSE visit(t, array[k], leave) \o forEach(t, array, leave, k + 1)

\* The records handed to an enter callback, in order (as positions in t).
Entered(t) ==
  LET evs == traverseAST(t, 1, FALSE) IN [k \in 1..Len(evs) |-> evs[k].node]

\* node.callee, node.property, node.id, node.superClass, node.test: the child
\* record under that key, or null.
Field(t, i, key) ==
  LET found == SelectSeq(t[i].children, LAMBDA j : t[j].key = key)
  IN IF found = <<>> THEN Null ELSE found[1]

\* ------------------------------------------------------- node classifier
ExecutableKinds ==
  {"ExpressionStatement", "VariableDeclaration", "ReturnStatement", "IfStatement",
   "ForStatement", "ForInStatement", "ForOfStatement", "WhileStatement",
   "DoWhileStatement", "SwitchStatement", "ThrowStatement", "TryStatement",
   "FunctionDeclaration", "ClassDeclaration", "BreakStatement",
   "ContinueStatement", "AwaitExpression", "YieldExpression"}

\* The list with one kind left out.
isExecutableButBreak(t, i) == t[i].type \in ExecutableKinds \ {"BreakStatement"}

isExecutableNode(t, i) == t[i].type \in ExecutableKinds

\* ------------------------------------------------------------ arithmetic
\* Fixed point: the real x is the integer x * Scale, rounded down.
Scale == 10000

Ln2 == 6931

Max(a, b) == IF a >= b THEN a ELSE b

\* x / 2^e in [1, 2), and e
RECURSIVE Normalize(_, _)
Normalize(x, e) ==
  IF x >= 2 * Scale THEN Normalize(x \div 2, e + 1)
  ELSE IF x < Scale THEN Normalize(2 * x, e - 1)
  ELSE [y |-> x, e |-> e]

\* The fraction bits of log2 y for y in [1, 2), by repeated squaring; w is
\* the weight of the next bit.
RECURSIVE FractionBits(_, _)
FractionBits(y, w) ==
  IF w = 0 THEN 0
  ELSE LET y2 == (y * y) \div Scale
       IN IF y2 >= 2 * Scale THEN w + FractionBits(y2 \div 2, w \div 2)
          ELSE FractionBits(y2, w \div 2)

\* Math.log2(x) and Math.log(x) for x > 0
Log2(x) == LET n == Normalize(x, 0) IN n.e * Scale + FractionBits(n.y, Scale \div 2)

Log(x) == (Log2(x) * Ln2) \div Scale

\* A JavaScript number: a quotient, or NaN / Infinity when fin is FALSE.
Number(v) == [fin |-> TRUE, num |-> v, den |-> 1]

Divide(a, b) ==
  IF b = 0 THEN [fin |-> FALSE, num |-> a, den |-> 0]
  ELSE [fin |-> TRUE, num |-> a, den |-> b]

isFinite(x) == x.fin

\* ----------------------------------------------------------- calculators
RECURSIVE locLoop(_, _, _)
locLoop(t, v, k) ==
  IF k = 0 THEN 0
  ELSE locLoop(t, v, k - 1) + (IF isExecutableNode(t, v[k]) THEN 1 ELSE 0)

countLogicalLinesOfCode(t) == LET v == Entered(t) IN locLoop(t, v, Len(v))

\* The switch with the default clause counted like a case.
complexityCountingDefault(t, i) ==
  CASE t[i].type \in {"IfStatement", "ForStatement", "ForInStatement",
                      "ForOfStatement", "WhileStatement", "DoWhileStatement",
                      "CatchClause", "ConditionalExpression", "SwitchCase"} -> 1
    [] t[i].type = "LogicalExpression" ->
         IF operator(t[i]) \in {"&&", "||", "??"} THEN 1 ELSE 0
    [] t[i].type \in {"TryStatement", "ThrowStatement"} -> 1
    [] OTHER -> 0

\* What one visited node adds to the complexity counter.
complexityOf(t, i) ==
  CASE t[i].type \in {"IfStatement", "ForStatement", "ForInStatement",
                      "ForOfStatement", "WhileStatement", "DoWhileStatement",
                      "CatchClause", "ConditionalExpression"} -> 1
    [] t[i].type = "SwitchCase" -> IF Field(t, i, "test") # Null THEN 1 ELSE 0
    [] t[i].type = "LogicalExpression" ->
         IF operator(t[i]) \in {"&&", "||", "??"} THEN 1 ELSE 0
    [] t[i].type \in {"TryStatement", "ThrowStatement"} -> 1
    [] OTHER -> 0

RECURSIVE complexityLoop(_, _, _)
complexityLoop(t, v, k) ==
  IF k = 0 THEN 0 ELSE complexityLoop(t, v, k - 1) + complexityOf(t, v[k])

\* The counter started at 0 instead of 1.
complexityFromZero(t) ==
  LET v == Entered(t) IN complexityLoop(t, v, Len(v))

calculateCyclomaticComplexity(t) ==
  LET v == Entered(t) IN complexityLoop(t, v, Len(v)) + 1

\* The Halstead accumulators after the callback has run on node i.
NoTokens == [operators |-> {}, operands |-> {}, operatorCount |-> 0, operandCount |-> 0]

AddOperator(h, tok) ==
  [h EXCEPT !.operators = @ \cup {tok}, !.operatorCount = @ + 1]

\* operands.add(...) without operandCount++.
AddOperandUncounted(h, tok) == [h EXCEPT !.operands = @ \cup {tok}]

AddOperand(h, tok) ==
  [h EXCEPT !.operands = @ \cup {tok}, !.operandCount = @ + 1]

halsteadEnter(t, h, i) ==
  CASE t[i].type \in {"BinaryExpression", "LogicalExpression", "AssignmentExpression",
                      "UpdateExpression", "UnaryExpression"} ->
         AddOperator(h, operator(t[i]))
    [] t[i].type = "Identifier" -> AddOperand(h, name(t[i]))
    [] t[i].type = "Literal" -> AddOperand(h, String(t[i]))
    [] t[i].type = "CallExpression" ->
         LET callee == Field(t, i, "callee")
         IN IF t[callee].type = "Identifier"
            THEN AddOperator(h, name(t[callee]) \o "()") ELSE h
    [] t[i].type = "MemberExpression" ->
         LET property == Field(t, i, "property")
         IN IF t[property].type = "Identifier"
            THEN AddOperand(h, name(t[property])) ELSE h
    [] t[i].type = "ConditionalExpression" -> AddOperator(h, "?:")
    [] t[i].type = "NewExpression" -> AddOperator(h, "new")
    [] OTHER -> h

RECURSIVE halsteadLoop(_, _, _)
halsteadLoop(t, v, k) ==
  IF k = 0 THEN NoTokens ELSE halsteadEnter(t, halsteadLoop(t, v, k - 1), v[k])

halsteadVolume(h) ==
  LET n1 == Cardinality(h.operators)
      n2 == Cardinality(h.operands)
      vocabulary == n1 + n2
      length == h.operatorCount + h.operandCount
  IN IF vocabulary > 0 THEN length * Log2(vocabulary * Scale) ELSE 0

calculateHalsteadMetrics(t) ==
  LET v == Entered(t) IN [volume |-> halsteadVolume(halsteadLoop(t, v, Len(v)))]

\* The index without the rescaling of 171 to 100.
maintainabilityIndexUnscaled(volume, complexity, linesOfCode) ==
  LET volumeLog == IF volume > 0 THEN Log(volume) ELSE 0
      locLog == IF linesOfCode > 0 THEN Log(linesOfCode) ELSE 0
  IN Max(0, 171 * Scale - (52 * volumeLog) \div 10 - (23 * complexity) \div 100
              - (162 * locLog) \div 10)

calculateMaintainabilityIndex(volume, complexity, linesOfCode) ==
  LET volumeLog == IF volume > 0 THEN Log(volume) ELSE 0
      locLog == IF linesOfCode > 0 THEN Log(linesOfCode) ELSE 0
      mi == 171 * Scale - (52 * volumeLog) \div 10 - (23 * complexity) \div 100
              - (162 * locLog) \div 10
  IN Max(0, (mi * 100) \div 171)

\* The inheritance map and the class counter after the callback on node i.
NoClasses == [inheritanceMap |-> <<>>, classCount |-> 0]

MapGet(m, key) == IF key \in DOMAIN m THEN m[key] ELSE Null

MapSet(m, key, value) ==
  [x \in DOMAIN m \cup {key} |-> IF x = key THEN value ELSE m[x]]

\* The callback with `|| 0` where the code has `|| 1`.
classEnterUnknownAsZero(t, c, i) ==
  IF t[i].type = "ClassDeclaration" /\ Field(t, i, "id") # Null
  THEN LET superClass == Field(t, i, "superClass")
           got == IF superClass # Null /\ t[superClass].type = "Identifier"
                  THEN MapGet(c.inheritanceMap, name(t[superClass])) ELSE Null
           depth == IF superClass # Null /\ t[superClass].type = "Identifier"
                    THEN (IF got = Null THEN 0 ELSE got) + 1 ELSE 1
       IN [inheritanceMap |-> MapSet(c.inheritanceMap, name(t[Field(t, i, "id")]), depth),
           classCount |-> c.classCount + 1]
  ELSE c

\* The callback counting a declaration whether or not it has a name.
classEnterCountingUnnamed(t, c, i) ==
  IF t[i].type = "ClassDeclaration" /\ Field(t, i, "id") = Null
  THEN [c EXCEPT !.classCount = @ + 1]
  ELSE IF t[i].type = "ClassDeclaration"
  THEN LET superClass == Field(t, i, "superClass")
           got == IF superClass # Null /\ t[superClass].type = "Identifier"
                  THEN MapGet(c.inheritanceMap, name(t[superClass])) ELSE Null
           depth == IF superClass # Null /\ t[superClass].type = "Identifier"
                    THEN (IF got = Null THEN 1 ELSE got) + 1 ELSE 1
       IN [inheritanceMap |-> MapSet(c.inheritanceMap, name(t[Field(t, i, "id")]), depth),
           classCount |-> c.classCount + 1]
  ELSE c

\* The callback counting the names in the map instead of the declarations.
classEnterOncePerName(t, c, i) ==
  IF t[i].type = "ClassDeclaration" /\ Field(t, i, "id") # Null
  THEN LET superClass == Field(t, i, "superClass")
           got == IF superClass # Null /\ t[superClass].type = "Identifier"
                  THEN MapGet(c.inheritanceMap, name(t[superClass])) ELSE Null
           depth == IF superClass # Null /\ t[superClass].type = "Identifier"
                    THEN (IF got = Null THEN 1 ELSE got) + 1 ELSE 1
           map == MapSet(c.inheritanceMap, name(t[Field(t, i, "id")]), depth)
       IN [inheritanceMap |-> map, classCount |-> Cardinality(DOMAIN map)]
  ELSE c

classEnter(t, c, i) ==
  IF t[i].type = "ClassDeclaration" /\ Field(t, i, "id") # Null
  THEN LET superClass == Field(t, i, "superClass")
           got == IF superClass # Null /\ t[superClass].type = "Identifier"
                  THEN MapGet(c.inheritanceMap, name(t[superClass])) ELSE Null
           depth == IF superClass # Null /\ t[superClass].type = "Identifier"
                    THEN (IF got = Null THEN 1 ELSE got) + 1 ELSE 1
       IN [inheritanceMap |-> MapSet(c.inheritanceMap, name(t[Field(t, i, "id")]), depth),
           classCount |-> c.classCount + 1]
  ELSE c

RECURSIVE classLoop(_, _, _)
classLoop(t, v, k) ==
  IF k = 0 THEN NoClasses ELSE classEnter(t, classLoop(t, v, k - 1), v[k])

RECURSIVE MaxOf(_)
MaxOf(S) ==
  IF S = {} THEN 0 ELSE LET x == CHOOSE x \in S : TRUE IN Max(x, MaxOf(S \ {x}))

analyzeClassStructure(t) ==
  LET v == Entered(t)
      c == classLoop(t, v, Len(v))
  IN [classCount |-> c.classCount,
      maxInheritanceDepth |->
        MaxOf({c.inheritanceMap[x] : x \in DOMAIN c.inheritanceMap} \cup {0})]

isFunctionLike(t, i) ==
  t[i].type \in {"FunctionDeclaration", "FunctionExpression",
                 "ArrowFunctionExpression", "MethodDefinition"}

RECURSIVE functionLoop(_, _, _)
functionLoop(t, v, k) ==
  IF k = 0 THEN 0
  ELSE functionLoop(t, v, k - 1) + (IF isFunctionLike(t, v[k]) THEN 1 ELSE 0)

analyzeFunctionStructure(t) ==
  LET v == Entered(t) IN [functionCount |-> functionLoop(t, v, Len(v))]

\* ---------------------------------------------------------- orchestrator
parseThrows(src) == src.malformed

ZeroMetrics ==
  [linesOfCode |-> 0, cyclomaticComplexity |-> 0, maintainabilityIndex |-> 0,
   depthOfInheritance |-> 0, classCount |-> 0, methodCount |-> 0,
   averageMethodComplexity |-> [num |-> 0, den |-> 1]]

AllCalculators ==
  {"countLogicalLinesOfCode", "calculateCyclomaticComplexity",
   "calculateHalsteadMetrics", "calculateMaintainabilityIndex",
   "analyzeClassStructure", "analyzeFunctionStructure"}

\* The guard with >= where the code has >.
hasMethodsOrNone(functionCount) == functionCount >= 0

\* functionMetrics.functionCount > 0 ? ... : 0
hasMethods(functionCount) == functionCount > 0

\* isFinite(x) ? x : 0
finiteOrZero(x) == IF isFinite(x) THEN x ELSE Number(0)

\* The record built from the calculators' results (lines 37-73).
metricsOf(ast) ==
  LET linesOfCode == countLogicalLinesOfCode(ast)
      cyclomaticComplexity == calculateCyclomaticComplexity(ast)
      halsteadMetrics == calculateHalsteadMetrics(ast)
      maintainabilityIndex ==
        calculateMaintainabilityIndex(halsteadMetrics.volume,
                                      cyclomaticComplexity * Scale,
                                      linesOfCode * Scale)
      classStructure == analyzeClassStructure(ast)
      functionMetrics == analyzeFunctionStructure(ast)
      averageMethodComplexity ==
        IF hasMethods(functionMetrics.functionCount)
        THEN Divide(cyclomaticComplexity, functionMetrics.functionCount)
        ELSE Number(0)
      average == finiteOrZero(averageMethodComplexity)
  IN [record |->
        [linesOfCode |-> finiteOrZero(Number(linesOfCode)).num,
         cyclomaticComplexity |-> finiteOrZero(Number(cyclomaticComplexity)).num,
         maintainabilityIndex |-> finiteOrZero(Number(maintainabilityIndex)).num,
         depthOfInheritance |-> finiteOrZero(Number(classStructure.maxInheritanceDepth)).num,
         classCount |-> finiteOrZero(Number(classStructure.classCount)).num,
         methodCount |-> finiteOrZero(Number(functionMetrics.functionCount)).num,
         averageMethodComplexity |-> [num |-> average.num, den |-> average.den]],
      dividedByZero |->
        hasMethods(functionMetrics.functionCount) /\ functionMetrics.functionCount = 0]

\* The orchestrator with the parser call outside any try block.
outcomeUncaught(src) ==
  IF parseThrows(src)
  THEN [records |-> <<>>, errors |-> 0, ran |-> {},
        dividedByZero |-> FALSE, escaped |-> TRUE]
  ELSE LET m == metricsOf(parse(src))
       IN [records |-> <<m.record>>, errors |-> 0, ran |-> AllCalculators,
           dividedByZero |-> m.dividedByZero, escaped |-> FALSE]

\* What one call of calculateMetrics(code, filePath) does: the records it
\* returns, the console.error messages, the calculators it runs, and whether
\* an exception leaves it.
outcome(src) ==
  IF parseThrows(src)
  THEN [records |-> <<ZeroMetrics>>, errors |-> 1, ran |-> {},
        dividedByZero |-> FALSE, escaped |-> FALSE]
  ELSE LET m == metricsOf(parse(src))
       IN [records |-> <<m.record>>, errors |-> 0, ran |-> AllCalculators,
           dividedByZero |-> m.dividedByZero, escaped |-> FALSE]

\* ---------------------------------------------------------- the machine
NotApplied == -1

\* Before the command has been invoked and before anything has been called.
NoRun == [stage |-> "idle"]

NoDisk == <<>>

HostIdle ==
  /\ calls = <<>>
  /\ run = NoRun
  /\ disk = NoDisk
  /\ listed = <<>>

Init ==
  /\ HostIdle
  /\ code = [malformed |-> FALSE, nodes |-> EmptyModule, size |-> 0]
  /\ phase = "editing"
  /\ returned = <<>>
  /\ diagnostics = 0
  /\ ran = {}
  /\ escaped = FALSE
  /\ divByZero = FALSE
  /\ miArgs = <<0, 0, 0>>
  /\ miResult = NotApplied

\* The author writes one more construct somewhere in the file.
Type(alphabet, max) ==
  /\ phase = "editing"
  /\ ~code.malformed
  /\ code.size < max
  /\ \E c \in alphabet, p \in 1..Len(code.nodes) :
       /\ code.nodes[p].rec = "node"
       /\ Accepts(code.nodes[p].type) = c.cls
       /\ code' = [code EXCEPT !.nodes = Write(code.nodes, c, p), !.size = @ + 1]
  /\ UNCHANGED <<phase, returned, diagnostics, ran, escaped, divByZero, miArgs, miResult>>
  /\ UNCHANGED hostVars

AnyConstruct ==
  ExecutableStatements \cup OtherStatements \cup Members \cup Cases
    \cup Expressions \cup Calls \cup Comments

TypeConstruct == Type(AnyConstruct, MaxConstructs)

\* The author leaves a syntax error in the file.
TypeGarbage ==
  /\ phase = "editing"
  /\ ~code.malformed
  /\ code' = [code EXCEPT !.malformed = TRUE]
  /\ UNCHANGED <<phase, returned, diagnostics, ran, escaped, divByZero, miArgs, miResult>>
  /\ UNCHANGED hostVars

calculateMetrics ==
  /\ phase = "editing"
  /\ LET o == outcome(code)
     IN /\ returned' = returned \o o.records
        /\ diagnostics' = diagnostics + o.errors
        /\ ran' = o.ran
        /\ divByZero' = o.dividedByZero
        /\ escaped' = o.escaped
  /\ phase' = "done"
  /\ UNCHANGED <<code, miArgs, miResult>>
  /\ UNCHANGED hostVars

Next == TypeConstruct \/ TypeGarbage \/ calculateMetrics

Spec == Init /\ [][Next]_vars

\* Files that consist of class declarations, in every order.
ClassAlphabet ==
  { ClassDecl("A", ""), ClassDecl("B", "A"), ClassDecl("C", "B"), ClassDecl("D", "C"),
    ClassDecl("A", "D"), ClassDecl("D", "()"), ClassDecl("", "A") }

TypeClass == Type(ClassAlphabet, MaxClasses)

NextClasses == TypeClass \/ calculateMetrics

SpecClasses == Init /\ [][NextClasses]_vars

\* Class declarations that write the same names again: a plain one, one that
\* extends a name declared before or after it or not at all, a name declared
\* a second time, one that extends itself, one with a superclass that is no
\* identifier, and one without a name.
DeclarationAlphabet ==
  { ClassDecl("A", ""), ClassDecl("B", "A"), ClassDecl("A", "B"), ClassDecl("A", "A"),
    ClassDecl("B", "()"), ClassDecl("", "A") }

TypeDeclaration == Type(DeclarationAlphabet, MaxDeclarations)

NextDeclarations == TypeDeclaration \/ calculateMetrics

SpecDeclarations == Init /\ [][NextDeclarations]_vars

\* calculateMaintainabilityIndex on its own, on numbers of every size.
Volumes == {0, Scale \div 2, Scale, 2 * Scale, 10 * Scale, 1000 * Scale}

Complexities == {0, Scale, 2 * Scale, 10 * Scale, 100 * Scale, 1000 * Scale}

LineCounts == {0, Scale \div 2, Scale, 10 * Scale, 1000 * Scale}

InitMI ==
  /\ HostIdle
  /\ code = [malformed |-> FALSE, nodes |-> EmptyModule, size |-> 0]
  /\ phase = "editing"
  /\ returned = <<>>
  /\ diagnostics = 0
  /\ ran = {}
  /\ escaped = FALSE
  /\ divByZero = FALSE
  /\ miArgs \in Volumes \X Complexities \X LineCounts
  /\ miResult = NotApplied

ApplyMI ==
  /\ miResult = NotApplied
  /\ miResult' = calculateMaintainabilityIndex(miArgs[1], miArgs[2], miArgs[3])
  /\ UNCHANGED <<code, phase, returned, diagnostics, ran, escaped, divByZero, miArgs>>
  /\ UNCHANGED hostVars

NextMI == ApplyMI

SpecMI == InitMI /\ [][NextMI]_vars

\* ------------------------------------------------ calls, one after another
\* `class A { m() {} }`, `a;`, an empty text and a text with a syntax error.
Texts ==
  { [malformed |-> FALSE, nodes |-> EmptyModule, size |-> 0],
    [malformed |-> TRUE, nodes |-> EmptyModule, size |-> 0],
    [malformed |-> FALSE, size |-> 2,
     nodes |-> Write(Write(EmptyModule, ClassDecl("A", ""), 1), Method("m"), 3)],
    [malformed |-> FALSE, size |-> 1,
     nodes |-> Write(EmptyModule, ExprStmt(<<Id(1, "expression", "a")>>), 1)] }

FilePaths == {"a.ts", "lib/b.ts"}

\* calculateMetrics answering from a cache keyed by the file path.
invocationCachedByPath(src, filePath) ==
  LET o == outcome(src)
      hits == {k \in DOMAIN calls : calls[k].filePath = filePath}
      latest == CHOOSE k \in hits : \A h \in hits : h <= k
  IN [code |-> src, filePath |-> filePath,
      record |-> IF hits # {} THEN calls[latest].record ELSE o.records[1],
      console |-> IF o.errors > 0 THEN <<<<"Failed to parse", filePath>>>> ELSE <<>>]

\* One call calculateMetrics(code, filePath) as its caller sees it: the
\* record returned and the lines written to the console.  The file path
\* appears in the console line and nowhere else.
invocation(src, filePath) ==
  LET o == outcome(src)
  IN [code |-> src, filePath |-> filePath, record |-> o.records[1],
      console |-> IF o.errors > 0 THEN <<<<"Failed to parse", filePath>>>> ELSE <<>>]

Call ==
  /\ Len(calls) < MaxCalls
  /\ \E src \in Texts, filePath \in FilePaths :
       calls' = Append(calls, invocation(src, filePath))
  /\ UNCHANGED <<run, disk, listed>>
  /\ UNCHANGED coreVars

NextCalls == Call

SpecCalls == Init /\ [][NextCalls]_vars

\* ------------------------------------------------ the showMetrics command
\* const batchSize = 10
batchSize == 10

\* What the workspace holds when the command is invoked.  A file is named by
\* the number of its relative path; `at` says what fs.promises.readFile finds
\* under a folder and a relative path.
GoodText ==
  [malformed |-> FALSE, size |-> 1,
   nodes |-> Write(EmptyModule, ExprStmt(<<Id(1, "expression", "a")>>), 1)]

BadText == [malformed |-> TRUE, nodes |-> EmptyModule, size |-> 0]

Missing == [missing |-> TRUE]

\* One folder: texts that parse, texts that do not and files that cannot be
\* read (removed after discovery), in turn.
Mixed(n) ==
  [folders |-> 1,
   discovered |-> [k \in 1..n |-> [folder |-> 1, path |-> k]],
   at |-> [f \in {1}, p \in 1..n |->
             CASE p % 3 = 1 -> GoodText [] p % 3 = 2 -> BadText [] OTHER -> Missing]]

\* One folder, every text parses.
Healthy(n) ==
  [folders |-> 1,
   discovered |-> [k \in 1..n |-> [folder |-> 1, path |-> k]],
   at |-> [f \in {1}, p \in 1..n |-> GoodText]]

\* Two folders with different files: the odd ones in the first folder.
TwoRoots(n) ==
  [folders |-> 2,
   discovered |-> [k \in 1..n |-> [folder |-> 2 - (k % 2), path |-> k]],
   at |-> [f \in {1, 2}, p \in 1..n |->
             IF f = 2 - (p % 2)
             THEN (IF p % 4 < 2 THEN GoodText ELSE BadText) ELSE Missing]]

\* Two folders holding files of the same relative paths: good texts in the
\* first folder, texts with a syntax error in the second.
Twins(n) ==
  [folders |-> 2,
   discovered |-> [k \in 1..n |->
                     IF k <= (n + 1) \div 2 THEN [folder |-> 1, path |-> k]
                     ELSE [folder |-> 2, path |-> k - (n + 1) \div 2]],
   at |-> [f \in {1, 2}, p \in 1..n |-> IF f = 1 THEN GoodText ELSE BadText]]

Workspaces(n) == {Mixed(n), Healthy(n), TwoRoots(n), Twins(n)}

\* allFiles: getTypeScriptFiles(rootPath, rootPath) of every folder, appended
\* in folder order; only the relative paths are kept.
allFilesOf(w) ==
  LET inFolder(f) == SelectSeq(w.discovered, LAMBDA d : d.folder = f)
      both == IF w.folders = 1 THEN inFolder(1) ELSE inFolder(1) \o inFolder(2)
  IN [k \in 1..Len(both) |-> both[k].path]

\* const fullPath = path.join(workspaceFolders[0].uri.fsPath, file)
fullPathOf(file) == [folder |-> 1, path |-> file]

\* await fs.promises.readFile(fullPath, "utf-8"): the text, or Missing when
\* the call rejects.
readFile(w, fullPath) == w.at[fullPath.folder, fullPath.path]

\* The command's state right after totalFiles = allFiles.length.
started(w) ==
  LET allFiles == allFilesOf(w)
  IN [stage |-> "running", workspace |-> w, allFiles |-> allFiles,
      totalFiles |-> Len(allFiles), processedFiles |-> 0, i |-> 0,
      awaiting |-> FALSE,
      state |-> [k \in 1..Len(allFiles) |-> "waiting"],
      read |-> <<>>, metrics |-> <<>>, output |-> <<>>, increments |-> <<>>]

\* The batch.map callback of file k with no try around its body.
settleUncaught(r, k) ==
  LET file == r.allFiles[k]
      content == readFile(r.workspace, fullPathOf(file))
  IN IF content = Missing
     THEN [r EXCEPT !.state[k] = "done", !.stage = "rejected",
                    !.read = MapSet(@, k, fullPathOf(file))]
     ELSE [r EXCEPT !.state[k] = "done",
                    !.read = MapSet(@, k, fullPathOf(file)),
                    !.metrics = MapSet(@, file, invocation(content, file).record),
                    !.processedFiles = @ + 1,
                    !.increments = Append(@, [num |-> (r.processedFiles + 1) * 100,
                                              den |-> r.totalFiles])]

\* The batch.map callback of file k from the moment readFile settles: try
\* { calculateMetrics, metrics[file] = ... } catch { appendLine } finally
\* { processedFiles++, progress.report }.  `read` keeps, for every position of
\* allFiles, the fullPath that was handed to readFile.
settle(r, k) ==
  LET file == r.allFiles[k]
      content == readFile(r.workspace, fullPathOf(file))
      tried == IF content = Missing
               THEN [r EXCEPT !.output = Append(@, file)]
               ELSE [r EXCEPT !.metrics = MapSet(@, file, invocation(content, file).record)]
  IN [tried EXCEPT !.state[k] = "done",
                   !.read = MapSet(@, k, fullPathOf(file)),
                   !.processedFiles = @ + 1,
                   !.increments = Append(@, [num |-> (r.processedFiles + 1) * 100,
                                             den |-> r.totalFiles])]

\* allFiles.slice(i, i + batchSize), as positions of allFiles
batchOf(r) == {k \in DOMAIN r.allFiles : r.i < k /\ k <= r.i + batchSize}

\* A promise that settles as soon as one callback of the batch has finished.
anySettled(r) == batchOf(r) = {} \/ \E k \in batchOf(r) : r.state[k] = "done"

\* await Promise.all(...): every callback of the batch has finished.
allSettled(r) == \A k \in batchOf(r) : r.state[k] = "done"

\* The command is invoked: with no workspace folder it shows a message.
ShowMetrics ==
  /\ run = NoRun
  /\ \/ run' = [stage |-> "noFolder"]
     \/ \E n \in 0..(batchSize + MaxExtraFiles) : \E w \in Workspaces(n) :
          run' = started(w)
  /\ UNCHANGED <<calls, disk, listed>>
  /\ UNCHANGED coreVars

\* One turn of the for loop up to the await: every file of the batch starts
\* its read.
StartBatch ==
  /\ run.stage = "running"
  /\ ~run.awaiting
  /\ run.i < run.totalFiles
  /\ run' = [run EXCEPT !.awaiting = TRUE,
                        !.state = [k \in DOMAIN @ |->
                                     IF k \in batchOf(run) THEN "reading" ELSE @[k]]]
  /\ UNCHANGED <<calls, disk, listed>>
  /\ UNCHANGED coreVars

\* The read of one file in flight settles and its callback runs to its end.
Settle ==
  /\ run.stage = "running"
  /\ \E k \in DOMAIN run.state :
       /\ run.state[k] = "reading"
       /\ run' = settle(run, k)
  /\ UNCHANGED <<calls, disk, listed>>
  /\ UNCHANGED coreVars

\* The await returns: i += batchSize.
NextBatch ==
  /\ run.stage = "running"
  /\ run.awaiting
  /\ allSettled(run)
  /\ run' = [run EXCEPT !.awaiting = FALSE, !.i = @ + batchSize]
  /\ UNCHANGED <<calls, disk, listed>>
  /\ UNCHANGED coreVars

\* The loop is over: showMetricsVisualization(metrics, ...).
Visualize ==
  /\ run.stage = "running"
  /\ ~run.awaiting
  /\ run.i >= run.totalFiles
  /\ run' = [run EXCEPT !.stage = "shown"]
  /\ UNCHANGED <<calls, disk, listed>>
  /\ UNCHANGED coreVars

NextRun == ShowMetrics \/ StartBatch \/ Settle \/ NextBatch \/ Visualize

SpecRun == Init /\ [][NextRun]_vars

\* ------------------------------------------------------ getTypeScriptFiles
\* Paths and names are strings: sequences of characters.
NodeModules == <<"n", "o", "d", "e", "_", "m", "o", "d", "u", "l", "e", "s">>

\* config.get("excludedDirectories", [...]): the default list
DefaultExcluded ==
  <<NodeModules, <<".", "g", "i", "t">>, <<"d", "i", "s", "t">>,
    <<"b", "u", "i", "l", "d">>, <<"o", "u", "t">>>>

\* The list a user has configured instead.
CustomExcluded == <<<<"c", ".", "j", "s">>>>

\* getExcludedDirectories()
Configurations == {DefaultExcluded, CustomExcluded}

\* The names an entry of a directory can have, and what it can be: a file
\* (or anything else whose isDirectory() is false), a directory, or a
\* directory that readdir cannot read.
EntryNames ==
  { <<"a", ".", "t", "s">>, <<"b", ".", "t", "s", "x">>, <<"c", ".", "j", "s">>,
    <<"o", "u", "t">> }

EntryKinds == {"file", "dir", "locked"}

\* The directory the command starts from: a workspace folder.
rootPath == <<"/", "w">>

\* path.join(dir, entry.name)
join(dir, entryName) == dir \o <<"/">> \o entryName

\* path.relative(baseDir, fullPath), for a fullPath below baseDir
relative(baseDir, fullPath) == SubSeq(fullPath, Len(baseDir) + 2, Len(fullPath))

\* String.prototype.endsWith
endsWith(string, suffix) ==
  /\ Len(string) >= Len(suffix)
  /\ SubSeq(string, Len(string) - Len(suffix) + 1, Len(string)) = suffix

\* excludedDirs.includes(entry.name)
includes(array, item) == \E k \in DOMAIN array : array[k] = item

\* The test of the else-if with its second alternative left out.
isTypeScriptTsOnly(fullPath) == endsWith(fullPath, <<".", "t", "s">>)

\* fullPath.endsWith(".ts") || fullPath.endsWith(".tsx")
isTypeScript(fullPath) ==
  endsWith(fullPath, <<".", "t", "s">>) \/ endsWith(fullPath, <<".", "t", "s", "x">>)

\* fs.promises.readdir(dir, { withFileTypes: true }) of the directory that is
\* entry d of the file system (0: the root): it throws for a locked
\* directory, else gives the entries of d in directory order.
readdir(fs, d) ==
  IF d # 0 /\ fs[d].kind = "locked" THEN [threw |-> TRUE, entries |-> <<>>]
  ELSE [threw |-> FALSE,
        entries |-> SelectSeq([k \in DOMAIN fs |-> k], LAMBDA k : fs[k].parent = d)]

\* getTypeScriptFiles(dir, baseDir) with dir the path of directory d: the
\* paths it returns and the lines it writes to console.error.
RECURSIVE getTypeScriptFiles(_, _, _, _, _)
RECURSIVE forEntries(_, _, _, _, _, _, _)
getTypeScriptFiles(fs, excludedDirs, d, dir, baseDir) ==
  LET r == readdir(fs, d)
  IN IF r.threw THEN [results |-> <<>>, console |-> <<dir>>]
     ELSE forEntries(fs, excludedDirs, dir, baseDir, r.entries, 1,
                     [results |-> <<>>, console |-> <<>>])

\* for (const entry of entries) { ... }
forEntries(fs, excludedDirs, dir, baseDir, entries, k, acc) ==
  IF k > Len(entries) THEN acc
  ELSE LET entry == fs[entries[k]]
           fullPath == join(dir, entry.name)
           relativePath == relative(baseDir, fullPath)
           isDirectory == entry.kind \in {"dir", "locked"}
           below == getTypeScriptFiles(fs, excludedDirs, entries[k], fullPath, baseDir)
           next ==
             IF isDirectory
             THEN (IF ~includes(excludedDirs, entry.name)
                   THEN [results |-> acc.results \o below.results,
                         console |-> acc.console \o below.console]
                   ELSE acc)
             ELSE IF isTypeScript(fullPath)
             THEN [acc EXCEPT !.results = Append(@, relativePath)]
             ELSE acc
       IN forEntries(fs, excludedDirs, dir, baseDir, entries, k + 1, next)

\* The file system gets one more entry, in the root or in a directory.
Create ==
  /\ listed = <<>>
  /\ Len(disk) < MaxEntries
  /\ \E parent \in 0..Len(disk), entryName \in EntryNames, kind \in EntryKinds :
       /\ parent # 0 => disk[parent].kind \in {"dir", "locked"}
       /\ \A k \in DOMAIN disk : ~(disk[k].parent = parent /\ disk[k].name = entryName)
       /\ disk' = Append(disk, [parent |-> parent, name |-> entryName, kind |-> kind])
  /\ UNCHANGED <<calls, run, listed>>
  /\ UNCHANGED coreVars

\* getTypeScriptFiles(rootPath, rootPath) is called and returns.
List ==
  /\ listed = <<>>
  /\ \E excludedDirs \in Configurations :
       listed' = <<[excludedDirs |-> excludedDirs,
                    returned |-> getTypeScriptFiles(disk, excludedDirs, 0, rootPath, rootPath)]>>
  /\ UNCHANGED <<calls, run, disk>>
  /\ UNCHANGED coreVars

NextFiles == Create \/ List

SpecFiles == Init /\ [][NextFiles]_vars

\* =============================================================== claims
\* Vocabulary of the properties: the call has returned; the file parsed;
\* the syntax nodes the file denotes, read off the text and not off a walk.
Done == phase = "done"

Parsed == Done /\ ~code.malformed

Result == returned[Len(returned)]

SyntaxNodes == {i \in DOMAIN code.nodes : code.nodes[i].rec = "node"}

OfKind(kinds) == {i \in SyntaxNodes : code.nodes[i].type \in kinds}

HasField(i, key) ==
  \E j \in SyntaxNodes : code.nodes[j].parent = i /\ code.nodes[j].key = key

FieldOf(i, key) ==
  CHOOSE j \in SyntaxNodes : code.nodes[j].parent = i /\ code.nodes[j].key = key

\* C1: every record calculateMetrics returns has finite fields in their
\* documented ranges: the four counts and the average are >= 0 (the average a
\* quotient with a non-zero denominator), the maintainability index lies in
\* [0, 100], and the cyclomatic complexity is >= 1 when the file parsed and 0
\* only in the record of a parse failure.
C1_FieldsFiniteAndInRange ==
  \A k \in DOMAIN returned :
    LET m == returned[k]
    IN /\ m.linesOfCode \in Nat
       /\ m.classCount \in Nat
       /\ m.methodCount \in Nat
       /\ m.depthOfInheritance \in Nat
       /\ m.averageMethodComplexity.den > 0
       /\ m.averageMethodComplexity.num >= 0
       /\ m.maintainabilityIndex >= 0
       /\ m.maintainabilityIndex <= 100 * Scale
       /\ m.cyclomaticComplexity \in Nat
       /\ (~code.malformed => m.cyclomaticComplexity >= 1)
       /\ (m.cyclomaticComplexity = 0 => code.malformed)

\* A parsed file with statements, a class and functions has been measured.
C1_Witness ==
  /\ Parsed
  /\ Result.linesOfCode >= 2
  /\ Result.classCount >= 1
  /\ Result.methodCount >= 1
  /\ Result.maintainabilityIndex > 0

\* C2: when the parser rejects the text, calculateMetrics returns the record
\* whose seven fields are all 0, writes exactly one diagnostic, runs none of
\* the calculators and lets no exception out.
C2_ParseFailureYieldsZeroRecord ==
  (Done /\ code.malformed) =>
    /\ Len(returned) = 1
    /\ returned[1].linesOfCode = 0
    /\ returned[1].cyclomaticComplexity = 0
    /\ returned[1].maintainabilityIndex = 0
    /\ returned[1].depthOfInheritance = 0
    /\ returned[1].classCount = 0
    /\ returned[1].methodCount = 0
    /\ returned[1].averageMethodComplexity.num = 0
    /\ returned[1].averageMethodComplexity.den # 0
    /\ diagnostics = 1
    /\ ran = {}
    /\ ~escaped

\* A rejected text that had content before the syntax error has been measured.
C2_Witness == Done /\ code.malformed /\ code.size > 0 /\ diagnostics = 1

\* A file with no statement: nothing but (possibly) comments.
EmptyBody == SyntaxNodes = {1}

\* C3 as stated: an empty module yields linesOfCode 0, cyclomaticComplexity 1,
\* classCount 0, methodCount 0 and maintainabilityIndex exactly 100.
C3_EmptyModuleScoresHundred ==
  (Parsed /\ EmptyBody) =>
    /\ Result.linesOfCode = 0
    /\ Result.cyclomaticComplexity = 1
    /\ Result.classCount = 0
    /\ Result.methodCount = 0
    /\ Result.maintainabilityIndex = 100 * Scale

\* C3, amended: an empty module yields linesOfCode 0, cyclomaticComplexity 1,
\* classCount 0, methodCount 0, and maintainabilityIndex (171 - 0.23) * 100 / 171
\* (about 99.87): the baseline complexity of 1 still costs 0.23.
C3_EmptyModule ==
  (Parsed /\ EmptyBody) =>
    /\ Result.linesOfCode = 0
    /\ Result.cyclomaticComplexity = 1
    /\ Result.classCount = 0
    /\ Result.methodCount = 0
    /\ Result.maintainabilityIndex = ((171 * Scale - (23 * Scale) \div 100) * 100) \div 171
    /\ Result.maintainabilityIndex < 100 * Scale

\* An empty module, and one holding only a comment, have been measured.
C3_Witness == Parsed /\ EmptyBody /\ code.size = 1

\* The named class declarations of the file, in the order they are written,
\* the name of each, and the identifier it extends ("" when it extends
\* nothing or something that is not a plain identifier).
ClassesInOrder ==
  SelectSeq(code.nodes[1].children,
            LAMBDA i : code.nodes[i].type = "ClassDeclaration" /\ HasField(i, "id"))

ClassName(i) == code.nodes[FieldOf(i, "id")].text

ExtendsName(i) ==
  IF HasField(i, "superClass") /\ code.nodes[FieldOf(i, "superClass")].type = "Identifier"
  THEN code.nodes[FieldOf(i, "superClass")].text
  ELSE ""

DeclaredNames == {ClassName(ClassesInOrder[k]) : k \in DOMAIN ClassesInOrder}

Heads == [k \in DOMAIN ClassesInOrder |->
            <<ClassName(ClassesInOrder[k]), ExtendsName(ClassesInOrder[k])>>]

ChainOfFour == <<<<"A", "">>, <<"B", "A">>, <<"C", "B">>, <<"D", "C">>>>

\* The inheritance map analyzeClassStructure has built when its walk ends.
RecordedDepths ==
  LET t == parse(code)
      v == Entered(t)
  IN classLoop(t, v, Len(v)).inheritanceMap

\* C4 as stated: a class without extends clause has recorded depth 1; a class
\* that extends, by identifier, a class declared anywhere in the file has the
\* parent's recorded depth + 1; a chain of four declared classes yields
\* depthOfInheritance 4.  (Files that declare no name twice.)
C4_DepthFollowsParentAnywhere ==
  (Parsed /\ Cardinality(DeclaredNames) = Len(ClassesInOrder)) =>
    LET recorded == RecordedDepths
    IN /\ \A k \in DOMAIN ClassesInOrder :
            LET c == ClassesInOrder[k]
            IN /\ ~HasField(c, "superClass") => recorded[ClassName(c)] = 1
               /\ ExtendsName(c) \in DeclaredNames =>
                    recorded[ClassName(c)] = recorded[ExtendsName(c)] + 1
       /\ {Heads[k] : k \in DOMAIN Heads} = {ChainOfFour[k] : k \in 1..4} =>
            Result.depthOfInheritance = 4

LastOf(S) == CHOOSE x \in S : \A y \in S : y <= x

\* The depth written for the k-th declaration: 1 without a plain-identifier
\* parent, else one more than what the latest earlier declaration of the
\* parent's name got, and 2 when there is no earlier such declaration.
RECURSIVE DepthWritten(_)
DepthWritten(k) ==
  IF Heads[k][2] = "" THEN 1
  ELSE LET earlier == {j \in 1..(k - 1) : Heads[j][1] = Heads[k][2]}
       IN IF earlier = {} THEN 2 ELSE DepthWritten(LastOf(earlier)) + 1

FinalDepth(n) == DepthWritten(LastOf({k \in DOMAIN Heads : Heads[k][1] = n}))

\* C4, amended: a class without extends clause has recorded depth 1; a class
\* that extends, by identifier, a class declared earlier in the file has that
\* parent's recorded depth + 1; one that extends an identifier with no earlier
\* declaration (declared later, or not at all) has depth 2.  A chain of four
\* yields depthOfInheritance 4 when each class follows the one it extends, and
\* 2 when the four are written in the reverse order.
C4_DepthFollowsEarlierParent ==
  Parsed =>
    LET recorded == RecordedDepths
        expected == [n \in DeclaredNames |-> FinalDepth(n)]
    IN /\ recorded = expected
       /\ \A n \in DeclaredNames : Result.depthOfInheritance >= expected[n]
       /\ \/ \E n \in DeclaredNames : Result.depthOfInheritance = expected[n]
          \/ DeclaredNames = {} /\ Result.depthOfInheritance = 0
       /\ Heads = ChainOfFour => Result.depthOfInheritance = 4
       /\ Heads = [k \in 1..4 |-> ChainOfFour[5 - k]] => Result.depthOfInheritance = 2

\* The chain of four, written base class first, has been measured.
C4_Witness == Parsed /\ Heads = ChainOfFour /\ Result.depthOfInheritance = 4

\* The functions of the file, each once: a class method is the
\* MethodDefinition together with the FunctionExpression in its value field.
MethodValues ==
  {i \in OfKind({"FunctionExpression"}) :
     code.nodes[i].key = "value" /\ code.nodes[code.nodes[i].parent].type = "MethodDefinition"}

Functions ==
  OfKind({"FunctionDeclaration", "FunctionExpression", "ArrowFunctionExpression",
          "MethodDefinition"}) \ MethodValues

\* C5: methodCount counts every function of the file exactly once: each
\* function declaration, function expression, arrow function and class method
\* contributes 1, so k class methods and nothing else give methodCount k.
C5_EveryFunctionCountedOnce ==
  Parsed => Result.methodCount = Cardinality(Functions)

\* The sum the complexity of a parsed file is made of.
Decisions ==
  Cardinality(OfKind({"IfStatement", "ForStatement", "ForInStatement",
                      "ForOfStatement", "WhileStatement", "DoWhileStatement",
                      "CatchClause", "ConditionalExpression",
                      "TryStatement", "ThrowStatement"}))
    + Cardinality({i \in OfKind({"SwitchCase"}) : HasField(i, "test")})
    + Cardinality({i \in OfKind({"LogicalExpression"}) :
                     code.nodes[i].text \in {"&&", "||", "??"}})

\* What the calculator makes of the text before and after one more construct.
ComplexityNow == calculateCyclomaticComplexity(parse(code))

ComplexityNext == calculateCyclomaticComplexity(parse(code'))

\* The construct a step adds to the text: its first record and its size.
AddedHead == code'.nodes[Len(code.nodes) + 1]

AddedSize == Len(code'.nodes) - Len(code.nodes)

\* C6: the cyclomatic complexity is 1 + the number of if / for / for-in /
\* for-of / while / do-while / catch / conditional-expression / try / throw
\* nodes + the number of switch cases with a test + the number of logical
\* expressions with operator &&, || or ??; a default clause and every other
\* kind of node add nothing.  So writing one more plain if, or one more case
\* with a test, raises the result by exactly 1, and writing a default clause
\* leaves it as it was.
C6_ComplexityIsOnePlusDecisions ==
  /\ [](Parsed => Result.cyclomaticComplexity = 1 + Decisions)
  /\ [][/\ (AddedSize = 3 /\ AddedHead.type = "IfStatement") =>
             ComplexityNext = ComplexityNow + 1
        /\ (AddedSize = 2 /\ AddedHead.type = "SwitchCase") =>
             ComplexityNext = ComplexityNow + 1
        /\ (AddedSize = 1 /\ AddedHead.type = "SwitchCase") =>
             ComplexityNext = ComplexityNow]_vars

\* A switch with one default clause and one if statement inside it: the if
\* counts, the default clause does not.
C6_Witness ==
  /\ Parsed
  /\ \E i \in OfKind({"SwitchCase"}), j \in OfKind({"IfStatement"}) :
       ~HasField(i, "test") /\ code.nodes[j].parent = i
  /\ Result.cyclomaticComplexity = 2

\* C7: on a successful parse averageMethodComplexity is cyclomaticComplexity /
\* methodCount when methodCount > 0 and 0 when methodCount = 0, and no
\* division by zero is performed.
C7_AverageIsQuotientOrZero ==
  Parsed =>
    LET avg == Result.averageMethodComplexity
    IN /\ Result.methodCount > 0 =>
            /\ avg.den # 0
            /\ avg.num * Result.methodCount = Result.cyclomaticComplexity * avg.den
       /\ Result.methodCount = 0 => avg.num = 0 /\ avg.den # 0
       /\ ~divByZero

\* A file with functions whose quotient is not a whole number has been measured.
C7_Witness ==
  /\ Parsed
  /\ Result.methodCount = 2
  /\ Result.cyclomaticComplexity = 1
  /\ Result.averageMethodComplexity = [num |-> 1, den |-> 2]

\* C8: for non-negative volume, complexity and linesOfCode,
\* calculateMaintainabilityIndex returns max(0, raw * 100 / 171) with
\* raw = 171 - 5.2 ln(volume) - 0.23 complexity - 16.2 ln(linesOfCode), a log
\* term being 0 when its argument is <= 0, and the result lies in [0, 100].
C8_IndexIsScaledAndWithinHundred ==
  miResult # NotApplied =>
    LET lnV == IF miArgs[1] > 0 THEN Log(miArgs[1]) ELSE 0
        lnL == IF miArgs[3] > 0 THEN Log(miArgs[3]) ELSE 0
        raw == 171 * Scale - (52 * lnV) \div 10 - (23 * miArgs[2]) \div 100
                 - (162 * lnL) \div 10
    IN /\ miResult = (IF raw > 0 THEN (raw * 100) \div 171 ELSE 0)
       /\ miResult >= 0
       /\ miResult <= 100 * Scale

\* The token occurrences the syntax nodes of the file account for.
OperatorNodes ==
  OfKind({"BinaryExpression", "LogicalExpression", "AssignmentExpression",
          "UpdateExpression", "UnaryExpression"})

IdentifierCalls ==
  {i \in OfKind({"CallExpression"}) : code.nodes[FieldOf(i, "callee")].type = "Identifier"}

IdentifierMembers ==
  {i \in OfKind({"MemberExpression"}) :
     code.nodes[FieldOf(i, "property")].type = "Identifier"}

Measured ==
  LET t == parse(code)
      v == Entered(t)
  IN halsteadLoop(t, v, Len(v))

\* C9: the operator occurrences are exactly the operators of the binary,
\* logical, assignment, update and unary expressions, "?:" per conditional
\* expression, "new" per new-expression and "<name>()" per call of a plain
\* identifier; the operand occurrences are exactly the names of the identifier
\* nodes, the string forms of the literals and the property names of member
\* expressions with an identifier property; and the volume is
\* (N1 + N2) * log2(n1 + n2), or 0 when n1 + n2 = 0.
C9_HalsteadCountsExactlyTheSyntax ==
  Parsed =>
    LET h == Measured
        vocabulary == Cardinality(h.operators) + Cardinality(h.operands)
    IN /\ h.operatorCount =
            Cardinality(OperatorNodes) + Cardinality(OfKind({"ConditionalExpression"}))
              + Cardinality(OfKind({"NewExpression"})) + Cardinality(IdentifierCalls)
       /\ h.operators =
            {code.nodes[i].text : i \in OperatorNodes}
              \cup {"?:" : i \in OfKind({"ConditionalExpression"})}
              \cup {"new" : i \in OfKind({"NewExpression"})}
              \cup {code.nodes[FieldOf(i, "callee")].text \o "()" : i \in IdentifierCalls}
       /\ h.operandCount =
            Cardinality(OfKind({"Identifier"})) + Cardinality(OfKind({"Literal"}))
              + Cardinality(IdentifierMembers)
       /\ h.operands =
            {code.nodes[i].text : i \in OfKind({"Identifier"})}
              \cup {String(code.nodes[i]) : i \in OfKind({"Literal"})}
              \cup {code.nodes[FieldOf(i, "property")].text : i \in IdentifierMembers}
       /\ calculateHalsteadMetrics(parse(code)).volume =
            (IF vocabulary > 0
             THEN (h.operatorCount + h.operandCount) * Log2(vocabulary * Scale) ELSE 0)

\* A node that lies inside another one.
RECURSIVE Inside(_, _)
Inside(j, i) ==
  code.nodes[j].parent # 0 /\ (code.nodes[j].parent = i \/ Inside(code.nodes[j].parent, i))

\* C10: linesOfCode is the number of nodes of the 18 executable kinds, each
\* counted once, also when it lies inside another executable node, and no
\* node of another kind is counted.
C10_LinesAreExecutableNodes ==
  Parsed =>
    Result.linesOfCode =
      Cardinality(OfKind({"ExpressionStatement", "VariableDeclaration", "ReturnStatement",
                          "IfStatement", "ForStatement", "ForInStatement",
                          "ForOfStatement", "WhileStatement", "DoWhileStatement",
                          "SwitchStatement", "ThrowStatement", "TryStatement",
                          "FunctionDeclaration", "ClassDeclaration", "BreakStatement",
                          "ContinueStatement", "AwaitExpression", "YieldExpression"}))

\* A break statement inside a while loop, next to nodes that are not counted.
C10_Witness ==
  /\ Parsed
  /\ \E i \in OfKind({"WhileStatement"}), j \in OfKind({"BreakStatement"}) : Inside(j, i)
  /\ Result.linesOfCode = 2
  /\ Cardinality(SyntaxNodes) > 3

C12_FailuresStayLocal ==
  /\ run.stage \in {"idle", "noFolder", "running", "shown"}
  /\ run.stage = "running" =>
       \/ ~run.awaiting
       \/ \E k \in DOMAIN run.state : run.state[k] = "reading"
       \/ \A k \in DOMAIN run.state : k <= run.i + batchSize => run.state[k] = "done"
  /\ run.stage = "shown" =>
       /\ run.processedFiles = run.totalFiles
       /\ \A k \in DOMAIN run.allFiles :
            LET file == run.allFiles[k]
                text == run.workspace.at[1, file]
            IN text # Missing =>
                 /\ file \in DOMAIN run.metrics
                 /\ run.metrics[file] = IF text.malformed THEN ZeroMetrics
                                        ELSE outcome(text).records[1]

C12_Witness ==
  /\ run.stage = "shown"
  /\ run.totalFiles > batchSize
  /\ \E j, k, l \in DOMAIN run.allFiles :
       /\ j < k /\ k < l
       /\ run.workspace.at[1, run.allFiles[j]] = BadText
       /\ run.workspace.at[1, run.allFiles[k]] = Missing
       /\ run.workspace.at[1, run.allFiles[l]] = GoodText
       /\ run.metrics[run.allFiles[j]] = ZeroMetrics
       /\ run.allFiles[k] \notin DOMAIN run.metrics
       /\ run.metrics[run.allFiles[l]].linesOfCode = 1

\* Files of the run whose read has started and whose callback has not ended.
InFlight == {k \in DOMAIN run.state : run.state[k] = "reading"}

\* The batch a position of allFiles belongs to, counted from 0.
BatchNumber(k) == (k - 1) \div 10

\* C16: the files are processed in consecutive batches of at most 10: never
\* more than 10 files are in flight, the files in flight belong to one batch,
\* a file has only started when every file of every earlier batch is
\* finished, a finished file is never started again, and when the result is
\* shown every discovered file is finished and was counted once.
C16_BatchesOfTen ==
  /\ [](run.stage \in {"running", "shown"} =>
          /\ Cardinality(InFlight) <= 10
          /\ \A j, k \in InFlight : BatchNumber(j) = BatchNumber(k)
          /\ \A j, k \in DOMAIN run.state :
               BatchNumber(j) < BatchNumber(k) /\ run.state[k] # "waiting"
                 => run.state[j] = "done"
          /\ run.processedFiles = Cardinality({k \in DOMAIN run.state : run.state[k] = "done"})
          /\ run.stage = "shown" =>
               \A k \in DOMAIN run.state : run.state[k] = "done")
  /\ [][run.stage \in {"running", "shown"} =>
          \A k \in DOMAIN run.state :
            /\ run.state[k] = "done" => run'.state[k] = "done"
            /\ run.state[k] = "reading" => run'.state[k] \in {"reading", "done"}]_vars

C16_Witness ==
  /\ run.stage = "running"
  /\ run.totalFiles = 12
  /\ Cardinality(InFlight) = 2
  /\ \A k \in InFlight : BatchNumber(k) = 1
  /\ run.output # <<>>

\* The sum of the increments passed to progress.report so far, as a number of
\* hundredths of a file: every increment is num / totalFiles.
RECURSIVE ReportedSum(_)
ReportedSum(increments) ==
  IF increments = <<>> THEN 0
  ELSE increments[1].num + ReportedSum(Tail(increments))

\* C20: in a run over n >= 1 files the increments passed to progress.report
\* add up to at most 100 at every moment and to exactly 100 once the last
\* file has been processed.
C20_IncrementsSumToHundred ==
  run.stage \in {"running", "shown"} /\ run.totalFiles >= 1 =>
    /\ \A k \in DOMAIN run.increments : run.increments[k].den = run.totalFiles
    /\ ReportedSum(run.increments) <= 100 * run.totalFiles
    /\ run.processedFiles = run.totalFiles =>
         ReportedSum(run.increments) = 100 * run.totalFiles

\* C13: on the tree of any measured text traverseAST delivers exactly one
\* enter and, with a leave callback, exactly one leave for every record of
\* the tree; a record is entered after its parent and before it is left, it
\* is left before its parent is left, and the children of a record are
\* walked one after the other in the order of the parent's fields and
\* arrays (a child is left before the next one is entered).  Without a leave
\* callback the enter events are the same.  (Exactly once: the walk of n
\* records has 2n events and every enter and leave of a record is among them.)
C13_WalkIsPreAndPostOrder ==
  Parsed =>
    LET t == parse(code)
        evs == traverseAST(t, 1, TRUE)
        enter == [i \in DOMAIN t |->
                    CHOOSE k \in DOMAIN evs : evs[k] = [ev |-> "enter", node |-> i]]
        leave == [i \in DOMAIN t |->
                    CHOOSE k \in DOMAIN evs : evs[k] = [ev |-> "leave", node |-> i]]
        enters == SelectSeq(evs, LAMBDA e : e.ev = "enter")
    IN /\ Len(evs) = 2 * Len(t)
       /\ {evs[k] : k \in DOMAIN evs} = [ev : {"enter", "leave"}, node : DOMAIN t]
       /\ \A i \in DOMAIN t :
            /\ enter[i] < leave[i]
            /\ t[i].parent # 0 =>
                 /\ enter[t[i].parent] < enter[i]
                 /\ leave[i] < leave[t[i].parent]
            /\ \A a \in 1..(Len(t[i].children) - 1) :
                 leave[t[i].children[a]] < enter[t[i].children[a + 1]]
       /\ evs[1] = [ev |-> "enter", node |-> 1]
       /\ traverseAST(t, 1, FALSE) = enters

\* A measured text whose Program has two statements, the first with a nested
\* record, so that the tree has siblings, descendants and tokens.
C13_Witness ==
  /\ Parsed
  /\ \E i, j, k \in SyntaxNodes :
       /\ i < j
       /\ code.nodes[i].parent = 1
       /\ code.nodes[j].parent = 1
       /\ code.nodes[k].parent = i
  /\ Len(parse(code)) > Len(code.nodes)

\* The tree of the text as the parser returns it with neither tokens: true
\* nor comment: true: the Program holds its body only.
WithoutArrays ==
  [code.nodes EXCEPT ![1].children = SelectSeq(@, LAMBDA j : code.nodes[j].rec = "node")]

\* C14: the records of the Program's tokens and comments arrays never reach
\* an enter callback, so every entered record is a syntax node, and the
\* Halstead operand count and the whole metrics record of a file are the
\* same with and without those arrays.
C14_OnlySyntaxNodesAreEntered ==
  Parsed =>
    LET t == parse(code)
        v == Entered(t)
        bare == WithoutArrays
        w == Entered(bare)
    IN /\ \A k \in DOMAIN v : t[v[k]].rec = "node"
       /\ halsteadLoop(t, v, Len(v)).operandCount
            = halsteadLoop(bare, w, Len(w)).operandCount
       /\ metricsOf(t).record = metricsOf(bare).record

\* The inheritance map after one more named declaration, read off the text:
\* a declaration <<name, extended name>> writes, under its name, 1 when it
\* extends no plain identifier and otherwise one more than the entry of the
\* extended name at that moment (1 when there is none).
Written(m, head) ==
  LET depth == IF head[2] = "" THEN 1
               ELSE (IF head[2] \in DOMAIN m THEN m[head[2]] ELSE 1) + 1
  IN [x \in DOMAIN m \cup {head[1]} |-> IF x = head[1] THEN depth ELSE m[x]]

\* The walk of analyzeClassStructure up to its k-th step, set against the
\* text: the state of the callback, the number of named declarations entered
\* so far, the map those declarations write one after the other, and whether
\* the two agreed after every step.
RECURSIVE ClassSteps(_, _, _, _, _)
ClassSteps(t, v, named, heads, k) ==
  IF k = 0 THEN [c |-> NoClasses, seen |-> 0, map |-> <<>>, agree |-> TRUE]
  ELSE LET before == ClassSteps(t, v, named, heads, k - 1)
           now == classEnter(t, before.c, v[k])
           seen == IF v[k] \in named THEN before.seen + 1 ELSE before.seen
           map == IF v[k] \in named THEN Written(before.map, heads[seen]) ELSE before.map
       IN [c |-> now, seen |-> seen, map |-> map,
           agree |-> before.agree /\ now.classCount = seen /\ now.inheritanceMap = map]

\* C15: the named class declarations are processed in the order they are
\* written: after every step of the walk classCount is the number of named
\* declarations entered so far (a repeated name counts every time, an unnamed
\* declaration never) and the map is the one those declarations write one
\* after the other, each overwriting the entry of its name; the reported
\* depth is the greatest value of the final map, or 0 without any named
\* declaration.
C15_DeclarationsInOrder ==
  Parsed =>
    LET t == parse(code)
        v == Entered(t)
        heads == Heads
        named == {ClassesInOrder[k] : k \in DOMAIN ClassesInOrder}
        walk == ClassSteps(t, v, named, heads, Len(v))
        final == walk.map
    IN /\ walk.agree
       /\ walk.seen = Len(heads)
       /\ Result.classCount = Len(heads)
       /\ \A n \in DOMAIN final : Result.depthOfInheritance >= final[n]
       /\ IF heads = <<>> THEN Result.depthOfInheritance = 0
          ELSE \E n \in DOMAIN final : Result.depthOfInheritance = final[n]

\* A measured file that declares a name twice, the second time extending a
\* deeper class, and holds an unnamed declaration and one with a superclass
\* that is no identifier.
C15_Witness ==
  /\ Parsed
  /\ \E j, k \in DOMAIN Heads : j < k /\ Heads[j][1] = Heads[k][1] /\ Heads[k][2] # ""
  /\ Cardinality(OfKind({"ClassDeclaration"})) > Len(ClassesInOrder)
  /\ Result.classCount > Cardinality(DeclaredNames)
  /\ Result.depthOfInheritance >= 3

\* The depth reported for an inheritance map: its greatest value, 0 when it
\* is empty.
Deepest(map) ==
  IF DOMAIN map = {} THEN 0
  ELSE CHOOSE d \in {map[x] : x \in DOMAIN map} : \A x \in DOMAIN map : map[x] <= d

\* classCount and the reported depth go together: both 0, or classCount >= 1
\* and 1 <= depth <= classCount + 1.
WithinCount(classCount, depth) ==
  /\ depth = 0 <=> classCount = 0
  /\ classCount >= 1 => 1 <= depth /\ depth <= classCount + 1

\* Whether the state of analyzeClassStructure's callback was WithinCount
\* after each of the first k steps of the walk, and that state.
RECURSIVE DepthSteps(_, _, _)
DepthSteps(t, v, k) ==
  IF k = 0 THEN [c |-> NoClasses, within |-> WithinCount(0, Deepest(<<>>))]
  ELSE LET before == DepthSteps(t, v, k - 1)
           now == classEnter(t, before.c, v[k])
       IN [c |-> now,
           within |-> before.within
                        /\ WithinCount(now.classCount, Deepest(now.inheritanceMap))]

\* C19: maxInheritanceDepth = 0 exactly when classCount = 0, and with
\* classCount >= 1 it lies between 1 and classCount + 1: in the result of
\* analyzeClassStructure and after every declaration it has processed, also
\* when a declaration extends itself, an undeclared name or a name declared
\* again.
C19_DepthWithinClassCount ==
  Parsed =>
    LET t == parse(code)
        v == Entered(t)
        result == analyzeClassStructure(t)
    IN /\ DepthSteps(t, v, Len(v)).within
       /\ WithinCount(result.classCount, result.maxInheritanceDepth)
       /\ WithinCount(Result.classCount, Result.depthOfInheritance)

\* A measured file of three declarations of one name, each extending itself:
\* the depth is classCount + 1.
C19_Witness ==
  /\ Parsed
  /\ Len(Heads) = 3
  /\ \A k \in DOMAIN Heads : Heads[k][1] = Heads[k][2]
  /\ Result.classCount = 3
  /\ Result.depthOfInheritance = 4

\* The occurrence counters are at least the sizes of the token sets.
Dominates(h) ==
  /\ h.operatorCount >= Cardinality(h.operators)
  /\ h.operandCount >= Cardinality(h.operands)

\* The state of calculateHalsteadMetrics' callback after the first k steps of
\* the walk, and whether the counters dominated the sets after each of them.
RECURSIVE HalsteadSteps(_, _, _)
HalsteadSteps(t, v, k) ==
  IF k = 0 THEN [h |-> NoTokens, dominated |-> Dominates(NoTokens)]
  ELSE LET before == HalsteadSteps(t, v, k - 1)
           now == halsteadEnter(t, before.h, v[k])
       IN [h |-> now, dominated |-> before.dominated /\ Dominates(now)]

\* C18: after every step of the Halstead traversal operatorCount >= the
\* number of distinct operators and operandCount >= the number of distinct
\* operands; so at the end length >= vocabulary, the volume is 0 when the
\* vocabulary is at most 1 and at least 2 otherwise, never strictly between
\* 0 and 1, and the logarithm of a positive volume, the volume term of the
\* maintainability index, is not negative.
C18_CountersDominateSets ==
  Parsed =>
    LET t == parse(code)
        v == Entered(t)
        walk == HalsteadSteps(t, v, Len(v))
        vocabulary == Cardinality(walk.h.operators) + Cardinality(walk.h.operands)
        length == walk.h.operatorCount + walk.h.operandCount
        volume == calculateHalsteadMetrics(t).volume
    IN /\ walk.dominated
       /\ length >= vocabulary
       /\ vocabulary <= 1 => volume = 0
       /\ vocabulary >= 2 => volume >= 2 * Scale
       /\ ~(0 < volume /\ volume < Scale)
       /\ volume > 0 => Log(volume) >= 0

\* A measured text with a repeated operand: more occurrences than distinct
\* operands, a vocabulary of at least 2 and a volume of at least 2.
C18_Witness ==
  /\ Parsed
  /\ Measured.operandCount > Cardinality(Measured.operands)
  /\ Measured.operatorCount >= 1
  /\ Cardinality(Measured.operands) >= 2
  /\ calculateHalsteadMetrics(parse(code)).volume >= 2 * Scale

\* The path of entry k of the file system relative to the root: the names
\* from the root down to it, separated by "/".
RECURSIVE PathOf(_)
PathOf(k) ==
  IF disk[k].parent = 0 THEN disk[k].name
  ELSE PathOf(disk[k].parent) \o <<"/">> \o disk[k].name

\* The directories an entry lies in, the root aside.
RECURSIVE Above(_)
Above(k) ==
  IF disk[k].parent = 0 THEN {} ELSE {disk[k].parent} \cup Above(disk[k].parent)

\* The last n characters of a path are the given ones.
EndsIn(path, n, chars) ==
  Len(path) >= n /\ \A j \in 1..n : path[Len(path) - n + j] = chars[j]

\* C17: getTypeScriptFiles(dir, dir) returns, each once, the relative paths
\* of exactly the entries that are no directories, whose path ends in .ts or
\* .tsx, and that lie in directories which can all be read and of which none
\* has a name of the excluded-directories list; a directory that cannot be
\* read gives one console line, takes none of the other paths away, and the
\* call returns all the same.
C17_ListsExactlyTheTypeScriptFiles ==
  \A c \in DOMAIN listed :
    LET excluded == {listed[c].excludedDirs[j] : j \in DOMAIN listed[c].excludedDirs}
        results == listed[c].returned.results
        expected ==
          {k \in DOMAIN disk :
             /\ disk[k].kind = "file"
             /\ \/ EndsIn(PathOf(k), 3, <<".", "t", "s">>)
                \/ EndsIn(PathOf(k), 4, <<".", "t", "s", "x">>)
             /\ \A d \in Above(k) : disk[d].kind = "dir" /\ disk[d].name \notin excluded}
        unread ==
          {k \in DOMAIN disk :
             /\ disk[k].kind = "locked"
             /\ disk[k].name \notin excluded
             /\ \A d \in Above(k) : disk[d].kind = "dir" /\ disk[d].name \notin excluded}
    IN /\ {results[j] : j \in DOMAIN results} = {PathOf(k) : k \in expected}
       /\ Len(results) = Cardinality(expected)
       /\ Len(listed[c].returned.console) = Cardinality(unread)

\* A listing of a root that holds a directory which cannot be read, with a
\* .ts file in it, beside a .tsx file that is returned.
C17_Witness ==
  /\ Len(listed) = 1
  /\ \E d, f, g \in DOMAIN disk :
       /\ disk[d].kind = "locked" /\ disk[d].parent = 0
       /\ disk[f].kind = "file" /\ disk[f].parent = d /\ disk[f].name = <<"a", ".", "t", "s">>
       /\ disk[g].kind = "file" /\ disk[g].parent = 0
       /\ disk[g].name = <<"b", ".", "t", "s", "x">>
       /\ listed[1].returned.results = <<disk[g].name>>
  /\ Len(listed[1].returned.console) = 1

\* The workspace folder in which the file at position k of allFiles was
\* discovered: allFiles holds the files of the first folder, then those of
\* the second.
DiscoveredIn(k) ==
  LET inFirst == Cardinality({j \in DOMAIN run.workspace.discovered :
                                run.workspace.discovered[j].folder = 1})
  IN IF k <= inFirst THEN 1 ELSE 2

\* C21: every file is read from inside the workspace folder it was
\* discovered in: the path handed to readFile for a position of allFiles is
\* the relative path found there joined with the folder of its discovery.
C21_ReadFromFolderOfDiscovery ==
  run.stage \in {"running", "shown"} =>
    \A k \in DOMAIN run.read :
      run.read[k] = [folder |-> DiscoveredIn(k), path |-> run.allFiles[k]]

====
